---- MODULE Spec2Model ----
(***************************************************************************)
(* Model of mopidy/ext.py: the extension Registry, load_extensions and     *)
(* validate_extension_data.                                                *)
(***************************************************************************)
EXTENDS Integers, Sequences, FiniteSets, TLC

(***************************************************************************)
(* Bounds                                                                  *)
(***************************************************************************)
\* number of Registry.add / Registry.__getitem__ calls explored
MaxOps == 4

\* registry keys and component types used as inputs
Keys == {"backend", "frontend"}
Types == {"T1", "T2"}

\* number of options in a config schema
MaxSchemaLen == 2

\* number of load_extensions() calls explored
MaxRuns == 2

VARIABLES
    registry,       \* Registry._registry: a dict (insertion ordered)
    hist,           \* history: the add and __getitem__ calls made so far
    last,           \* the last Registry operation: its arguments, its result
                    \* and the registry before it
    data,           \* the ExtensionData given to validate_extension_data
    vres,           \* what validate_extension_data did with data
    cands,          \* the entry points registered under "mopidy.ext": what
                    \* each one resolves to and how its extension behaves
    runs,           \* history: the load_extensions() calls made so far, each
                    \* with the order of enumeration and what it gave
    objs,           \* the Registry with its lists as objects: the dict of
                    \* references, the list objects and the references that
                    \* reads have handed out
    boot            \* the bootstrap: its phase, the descriptors, the
                    \* verdicts and the calls made so far

rvars == <<registry, hist, last>>

vvars == <<data, vres>>

dvars == <<cands, runs>>

xvars == <<objs, boot>>

vars == <<registry, hist, last, data, vres, cands, runs, objs, boot>>

(***************************************************************************)
(* Python dict: keys in insertion order and a value per key                *)
(***************************************************************************)
\* the elements of a sequence
SeqElems(q) == {q[i] : i \in 1..Len(q)}

EmptyDict == [order |-> <<>>, val |-> <<>>]

DictKeys(d) == {d.order[i] : i \in 1..Len(d.order)}

\* dict.get(name, []) : the value, or the empty list for an absent key
DictGet(d, name) == IF name \in DOMAIN d.val THEN d.val[name] ELSE <<>>

\* dict.setdefault(name, []) : inserts name -> [] when name is absent
setdefault(d, name) ==
    IF name \in DOMAIN d.val
    THEN d
    ELSE [order |-> Append(d.order, name), val |-> d.val @@ (name :> <<>>)]

(***************************************************************************)
(* class Registry                                                          *)
(***************************************************************************)
Registry_init == EmptyDict

\* a Registry.add that registers each class once per name
Registry_add_dedup(d, name, cls) ==
    LET e == setdefault(d, name)
    IN  IF \E i \in 1..Len(e.val[name]) : e.val[name][i] = cls
        THEN e
        ELSE [e EXCEPT !.val[name] = Append(@, cls)]

\* a Registry.add that replaces the list: self._registry[name] = [cls]
Registry_add_replace(d, name, cls) ==
    LET e == setdefault(d, name)
    IN  [e EXCEPT !.val[name] = <<cls>>]

\* self._registry.setdefault(name, []).append(cls)
Registry_add(d, name, cls) ==
    LET e == setdefault(d, name)
    IN  [e EXCEPT !.val[name] = Append(@, cls)]

\* a __getitem__ written as self._registry[name]: KeyError on an absent key
Registry_getitem_plain(d, name) ==
    IF name \in DOMAIN d.val
    THEN [reg |-> d, ret |-> d.val[name], raised |-> FALSE]
    ELSE [reg |-> d, ret |-> <<>>, raised |-> TRUE]

\* a __getitem__ written as self._registry.get(name, []): no key is created
Registry_getitem_get(d, name) ==
    [reg |-> d, ret |-> DictGet(d, name), raised |-> FALSE]

\* return self._registry.setdefault(name, [])
Registry_getitem(d, name) ==
    [reg |-> setdefault(d, name), ret |-> setdefault(d, name).val[name],
     raised |-> FALSE]

\* iter(self._registry)
Registry_iter(d) == d.order

\* len(self._registry)
Registry_len(d) == Len(d.order)

NoOp == [op |-> "none", name |-> "", cls |-> "", ret |-> <<>>, raised |-> FALSE,
         before |-> EmptyDict]

\* the classes passed to add under name, in call order
RECURSIVE AddedUnder(_, _)
AddedUnder(h, name) ==
    IF h = <<>> THEN <<>>
    ELSE LET r == AddedUnder(SubSeq(h, 1, Len(h) - 1), name)
             e == h[Len(h)]
         IN  IF e.op = "add" /\ e.name = name THEN Append(r, e.cls) ELSE r

\* the names passed to add or to __getitem__
Touched(h) == {h[i].name : i \in 1..Len(h)}

\* no validation under way
NoData == [entry_point |-> [name |-> "", require |-> "ok"],
           extension |-> [ext_name |-> "", validate_environment |-> "ok"],
           config_schema |-> [type |-> "None", items |-> <<>>],
           config_defaults |-> ""]

NotRun == [result |-> "none", calls |-> <<>>, log |-> "none"]

\* a Registry whose lists are objects: reg maps each name to a reference,
\* heap holds the contents of each list object
NoObjs == [reg |-> [order |-> <<>>, ref |-> <<>>], heap |-> <<>>, held |-> {}]

\* no bootstrap under way
NoBoot == [phase |-> "none", order |-> <<>>, installed |-> <<>>,
           verdicts |-> <<>>, composed |-> 0, trace |-> <<>>,
           error |-> "none"]

RegistryInit ==
    /\ registry = Registry_init
    /\ hist = <<>>
    /\ last = NoOp
    /\ data = NoData
    /\ vres = NotRun
    /\ cands = <<>>
    /\ runs = <<>>
    /\ objs = NoObjs
    /\ boot = NoBoot

\* registry.add(name, cls)
add(name, cls) ==
    /\ Len(hist) < MaxOps
    /\ registry' = Registry_add(registry, name, cls)
    /\ hist' = Append(hist, [op |-> "add", name |-> name, cls |-> cls])
    /\ last' = [op |-> "add", name |-> name, cls |-> cls, ret |-> <<>>,
                raised |-> FALSE, before |-> registry]
    /\ UNCHANGED <<vvars, dvars, xvars>>

\* registry[name]
getitem(name) ==
    /\ Len(hist) < MaxOps
    /\ LET r == Registry_getitem(registry, name)
       IN  /\ registry' = r.reg
           /\ last' = [op |-> "getitem", name |-> name, cls |-> "",
                       ret |-> r.ret, raised |-> r.raised, before |-> registry]
    /\ hist' = Append(hist, [op |-> "getitem", name |-> name, cls |-> ""])
    /\ UNCHANGED <<vvars, dvars, xvars>>

\* list(registry)
iter ==
    /\ last' = [op |-> "iter", name |-> "", cls |-> "",
                ret |-> Registry_iter(registry), raised |-> FALSE,
                before |-> registry]
    /\ UNCHANGED <<registry, hist, vvars, dvars, xvars>>

\* len(registry)
len ==
    /\ last' = [op |-> "len", name |-> "", cls |-> "",
                ret |-> <<Registry_len(registry)>>, raised |-> FALSE,
                before |-> registry]
    /\ UNCHANGED <<registry, hist, vvars, dvars, xvars>>

RegistryNext ==
    \/ \E name \in Keys, cls \in Types : add(name, cls)
    \/ \E name \in Keys : getitem(name)
    \/ iter
    \/ len

SpecRegistry == RegistryInit /\ [][RegistryNext]_vars

(***************************************************************************)
(* validate_extension_data                                                 *)
(***************************************************************************)
\* Python's None, where a str is expected
PyNone == "<None>"

\* entry point names and extension names
Names == {"demo", "other"}

\* what entry_point.require() does: returns, or raises DistributionNotFound,
\* VersionConflict with two args, VersionConflict with another number of args
\* (ContextualVersionConflict), or another error (UnknownExtra)
RequireOutcomes ==
    {"ok", "DistributionNotFound", "VersionConflict2", "VersionConflictN",
     "UnknownExtra"}

\* what extension.validate_environment() does: returns, or raises
\* ExtensionError, or raises another Exception
EnvironmentOutcomes == {"ok", "ExtensionError", "Exception"}

\* option names of a config schema
OptionNames == {"enabled", "hostname", "port"}

\* the type of a schema value: config_lib.Boolean, another config_lib
\* ConfigValue, or an object that is no ConfigValue
ValueKinds == {"Boolean", "String", "object"}

IsBoolean(kind) == kind = "Boolean"

\* Boolean is a subclass of ConfigValue
IsConfigValue(kind) == kind \in {"Boolean", "String"}

\* the items of a ConfigSchema: option names are distinct, order is kept
SchemaItems ==
    UNION {{q \in [1..n -> OptionNames \X ValueKinds] :
               \A i, j \in 1..n : i # j => q[i][1] # q[j][1]} :
           n \in 0..MaxSchemaLen}

\* the values get_config_schema() may have returned: a ConfigSchema or None
Schemas ==
    {[type |-> "ConfigSchema", items |-> q] : q \in SchemaItems}
        \cup {[type |-> "None", items |-> <<>>]}

\* the values get_default_config() may have returned
DefaultConfigs == {"", "[demo] enabled = true", PyNone}

\* bool(config_schema)
SchemaTruthy(schema) ==
    schema.type = "ConfigSchema" /\ Len(schema.items) > 0

\* config_schema.get(name): the value kind, or PyNone for a missing option
SchemaGet(schema, name) ==
    IF \E i \in 1..Len(schema.items) : schema.items[i][1] = name
    THEN schema.items[CHOOSE i \in 1..Len(schema.items) :
                          schema.items[i][1] = name][2]
    ELSE PyNone

\* bool(config_defaults)
DefaultsTruthy(defaults) == defaults \notin {"", PyNone}

ExtensionDatas ==
    [entry_point : [name : Names, require : RequireOutcomes],
     extension : [ext_name : Names \cup {PyNone},
                  validate_environment : EnvironmentOutcomes],
     config_schema : Schemas,
     config_defaults : DefaultConfigs]

Verdict(result, calls, log) == [result |-> result, calls |-> calls, log |-> log]

\* a validate_extension_data that checks the dependencies before the name
validate_extension_data_require_first(d) ==
    IF d.entry_point.require # "ok"
    THEN Verdict("False", <<"require">>, "info")
    ELSE IF d.extension.ext_name # d.entry_point.name
    THEN Verdict("False", <<"require", "identity">>, "warning")
    ELSE IF d.extension.validate_environment # "ok"
    THEN Verdict("False", <<"require", "identity", "validate_environment">>,
                 "info")
    ELSE IF ~SchemaTruthy(d.config_schema)
            \/ ~IsBoolean(SchemaGet(d.config_schema, "enabled"))
            \/ ~DefaultsTruthy(d.config_defaults)
    THEN Verdict("False", <<"require", "identity", "validate_environment",
                            "schema">>, "error")
    ELSE Verdict("True", <<"require", "identity", "validate_environment",
                           "schema", "defaults">>, "none")

\* a validate_extension_data without the loop over the schema's values
validate_extension_data_skip_values(d) ==
    IF d.extension.ext_name # d.entry_point.name
    THEN Verdict("False", <<"identity">>, "warning")
    ELSE IF d.entry_point.require # "ok"
    THEN Verdict(IF d.entry_point.require = "UnknownExtra"
                 THEN "raised" ELSE "False",
                 <<"identity", "require">>, "info")
    ELSE IF d.extension.validate_environment # "ok"
    THEN Verdict("False", <<"identity", "require", "validate_environment">>,
                 "info")
    ELSE IF ~SchemaTruthy(d.config_schema)
            \/ ~IsBoolean(SchemaGet(d.config_schema, "enabled"))
    THEN Verdict("False", <<"identity", "require", "validate_environment",
                            "schema">>, "error")
    ELSE IF ~DefaultsTruthy(d.config_defaults)
    THEN Verdict("False", <<"identity", "require", "validate_environment",
                            "schema", "defaults">>, "error")
    ELSE Verdict("True", <<"identity", "require", "validate_environment",
                           "schema", "defaults">>, "none")

\* validate_extension_data(data): result is "True" or "False" for a returned
\* value and "raised" for an exception that leaves the function; calls lists
\* the checks made, in order; log is the level of the message that gives the
\* reason
validate_extension_data(d) ==
    IF d.extension.ext_name # d.entry_point.name
    THEN Verdict("False", <<"identity">>, "warning")
    ELSE IF d.entry_point.require = "DistributionNotFound"
    THEN Verdict("False", <<"identity", "require">>, "info")
    ELSE IF d.entry_point.require \in {"VersionConflict2", "VersionConflictN"}
    THEN Verdict("False", <<"identity", "require">>, "info")
    ELSE IF d.entry_point.require # "ok"
    THEN Verdict("raised", <<"identity", "require">>, "none")
    ELSE IF d.extension.validate_environment = "ExtensionError"
    THEN Verdict("False", <<"identity", "require", "validate_environment">>,
                 "info")
    ELSE IF d.extension.validate_environment # "ok"
    THEN Verdict("False", <<"identity", "require", "validate_environment">>,
                 "exception")
    ELSE IF ~SchemaTruthy(d.config_schema)
    THEN Verdict("False", <<"identity", "require", "validate_environment",
                            "schema">>, "error")
    ELSE IF ~IsBoolean(SchemaGet(d.config_schema, "enabled"))
    THEN Verdict("False", <<"identity", "require", "validate_environment",
                            "schema">>, "error")
    ELSE IF \E i \in 1..Len(d.config_schema.items) :
                ~IsConfigValue(d.config_schema.items[i][2])
    THEN Verdict("False", <<"identity", "require", "validate_environment",
                            "schema">>, "error")
    ELSE IF ~DefaultsTruthy(d.config_defaults)
    THEN Verdict("False", <<"identity", "require", "validate_environment",
                            "schema", "defaults">>, "error")
    ELSE Verdict("True", <<"identity", "require", "validate_environment",
                           "schema", "defaults">>, "none")

ValidateInit ==
    /\ registry = Registry_init
    /\ hist = <<>>
    /\ last = NoOp
    /\ data \in ExtensionDatas
    /\ vres = NotRun
    /\ cands = <<>>
    /\ runs = <<>>
    /\ objs = NoObjs
    /\ boot = NoBoot

\* the host calls validate_extension_data(data)
ValidateExtensionData ==
    /\ vres = NotRun
    /\ vres' = validate_extension_data(data)
    /\ UNCHANGED <<rvars, data, dvars, xvars>>

ValidateNext == ValidateExtensionData

SpecValidate == ValidateInit /\ [][ValidateNext]_vars

(***************************************************************************)
(* load_extensions                                                         *)
(***************************************************************************)
\* the names of the entry points
EntryPointNames == {"alpha", "beta", "gamma"}

\* an attribute that raises AttributeError when read
Missing == "<missing>"

\* what an entry point does in load_extensions: the fields after the step
\* that fails are never looked at and are left at their first value
\*   resolve : entry_point.resolve() raises, or returns an object that is no
\*             class, a class that is no Extension, or an Extension subclass
\*   init    : extension_class() returns or raises
\*   dist_name, ext_name, version : missing, a str, or None
\*   get_config_schema, get_default_config, get_command : "base" when the
\*             extension does not override the method, else "raises" or the
\*             value its override returns ("ok" for a value of no interest)
Behaviour(resolve, init, dist_name, ext_name, version, schema, defaults, command) ==
    [resolve |-> resolve, init |-> init, dist_name |-> dist_name,
     ext_name |-> ext_name, version |-> version, get_config_schema |-> schema,
     get_default_config |-> defaults, get_command |-> command]

Behaviours ==
    {Behaviour(r, "ok", "str", "str", "str", "ok", "ok", "ok") :
         r \in {"raises", "nonclass", "notExtension"}}
    \cup {Behaviour("Extension", "raises", "str", "str", "str", "ok", "ok", "ok")}
    \cup {Behaviour("Extension", "ok", Missing, "str", "str", "ok", "ok", "ok"),
          Behaviour("Extension", "ok", "str", Missing, "str", "ok", "ok", "ok"),
          Behaviour("Extension", "ok", "str", "str", Missing, "ok", "ok", "ok")}
    \cup {Behaviour("Extension", "ok", "str", "str", "str", "raises", "ok", "ok"),
          Behaviour("Extension", "ok", "str", "str", "str", "ok", "raises", "ok"),
          Behaviour("Extension", "ok", "str", "str", "str", "ok", "ok", "raises")}
    \cup {Behaviour("Extension", "ok", "str", e, v, "ok", "ok", "ok") :
              e \in {"str", PyNone}, v \in {"str", PyNone}}

\* the orders in which iter_entry_points("mopidy.ext") may yield the entry
\* points of c
Enumerations(c) ==
    {q \in [1..Cardinality(DOMAIN c) -> DOMAIN c] :
         \A i, j \in DOMAIN q : i # j => q[i] # q[j]}

\* a get_default_config whose base implementation is `pass`: returns None
Extension_get_default_config_pass(b) ==
    IF b.get_default_config = "base" THEN PyNone ELSE b.get_default_config

\* extension.get_default_config(): the base implementation raises
\* NotImplementedError
Extension_get_default_config(b) ==
    IF b.get_default_config = "base" THEN "raises" ELSE b.get_default_config

\* extension.get_config_schema(): the base implementation returns a schema
\* with the one option enabled = Boolean()
Extension_get_config_schema(b) ==
    IF b.get_config_schema = "base" THEN "enabled:Boolean"
    ELSE b.get_config_schema

\* extension.get_command(): the base implementation returns None
Extension_get_command(b) ==
    IF b.get_command = "base" THEN PyNone ELSE b.get_command

\* the body of the for loop for one entry point: the ExtensionData appended
\* to installed_extensions, or nothing when one of the three try blocks
\* ends in continue
LoopBody(name, b) ==
    IF b.resolve = "raises" THEN <<>>
    ELSE IF b.resolve # "Extension" THEN <<>>
    ELSE IF b.init = "raises" THEN <<>>
    ELSE IF b.dist_name = Missing THEN <<>>
    ELSE IF b.ext_name = Missing THEN <<>>
    ELSE IF b.version = Missing THEN <<>>
    ELSE IF Extension_get_config_schema(b) = "raises" THEN <<>>
    ELSE IF Extension_get_default_config(b) = "raises" THEN <<>>
    ELSE IF Extension_get_command(b) = "raises" THEN <<>>
    ELSE <<[entry_point |-> name,
            extension |-> [dist_name |-> b.dist_name, ext_name |-> b.ext_name,
                           version |-> b.version],
            config_schema |-> Extension_get_config_schema(b),
            config_defaults |-> Extension_get_default_config(b),
            command |-> Extension_get_command(b)]>>

\* a loop that puts each new ExtensionData in front
RECURSIVE LoopPrepend(_, _)
LoopPrepend(eps, c) ==
    IF eps = <<>> THEN <<>>
    ELSE LoopBody(eps[Len(eps)], c[eps[Len(eps)]])
             \o LoopPrepend(SubSeq(eps, 1, Len(eps) - 1), c)

\* a loop whose except blocks lack the continue: after a failed entry
\* point the ExtensionData of the one before is appended once more
RECURSIVE LoopStale(_, _)
LoopStale(eps, c) ==
    IF eps = <<>> THEN <<>>
    ELSE LET before == LoopStale(SubSeq(eps, 1, Len(eps) - 1), c)
             body == LoopBody(eps[Len(eps)], c[eps[Len(eps)]])
         IN  IF body = <<>> /\ before # <<>>
             THEN Append(before, before[Len(before)])
             ELSE before \o body

\* installed_extensions after the for loop over the entry points eps
RECURSIVE Loop(_, _)
Loop(eps, c) ==
    IF eps = <<>> THEN <<>>
    ELSE Loop(SubSeq(eps, 1, Len(eps) - 1), c)
             \o LoopBody(eps[Len(eps)], c[eps[Len(eps)]])

\* ", ".join(names) raises TypeError when a name is no str
JoinRaises(installed) ==
    \E i \in 1..Len(installed) : installed[i].extension.ext_name = PyNone

\* load_extensions() with the entry points enumerated in the order eps
load_extensions(eps, c) ==
    LET installed_extensions == Loop(eps, c)
    IN  IF JoinRaises(installed_extensions)
        THEN [outcome |-> "raised", result |-> <<>>]
        ELSE [outcome |-> "returned", result |-> installed_extensions]

CandidateSets ==
    UNION {[S -> Behaviours] : S \in SUBSET EntryPointNames}

DiscoverInit ==
    /\ registry = Registry_init
    /\ hist = <<>>
    /\ last = NoOp
    /\ data = NoData
    /\ vres = NotRun
    /\ cands \in CandidateSets
    /\ runs = <<>>
    /\ objs = NoObjs
    /\ boot = NoBoot

\* the host calls load_extensions(); the plugin namespace enumerates the
\* entry points in some order
LoadExtensions ==
    /\ Len(runs) < MaxRuns
    /\ \E eps \in Enumerations(cands) :
           LET r == load_extensions(eps, cands)
           IN  runs' = Append(runs, [order |-> eps, outcome |-> r.outcome,
                                     result |-> r.result])
    /\ UNCHANGED <<rvars, vvars, cands, xvars>>

DiscoverNext == LoadExtensions

SpecDiscover == DiscoverInit /\ [][DiscoverNext]_vars

(***************************************************************************)
(* Registry, with the lists as objects                                     *)
(***************************************************************************)
\* dict.setdefault(name, []) on a dict of list objects: the reference stored
\* under name; a new empty list object is stored first when name is absent
ObjSetdefault(o, name) ==
    IF name \in DOMAIN o.reg.ref
    THEN [reg |-> o.reg, heap |-> o.heap, ret |-> o.reg.ref[name]]
    ELSE [reg |-> [order |-> Append(o.reg.order, name),
                   ref |-> o.reg.ref @@ (name :> Len(o.heap) + 1)],
          heap |-> Append(o.heap, <<>>),
          ret |-> Len(o.heap) + 1]

\* self._registry.setdefault(name, []).append(cls): append changes the list
\* object in place
ObjRegistry_add(o, name, cls) ==
    LET s == ObjSetdefault(o, name)
    IN  [reg |-> s.reg, heap |-> [s.heap EXCEPT ![s.ret] = Append(@, cls)]]

\* a __getitem__ that returns list(self._registry.setdefault(name, [])): a
\* new list object with the same contents
ObjRegistry_getitem_copy(o, name) ==
    LET s == ObjSetdefault(o, name)
    IN  [reg |-> s.reg, heap |-> Append(s.heap, s.heap[s.ret]),
         ret |-> Len(s.heap) + 1]

\* return self._registry.setdefault(name, []): the stored list object itself
ObjRegistry_getitem(o, name) == ObjSetdefault(o, name)

ObjectsInit ==
    /\ registry = Registry_init
    /\ hist = <<>>
    /\ last = NoOp
    /\ data = NoData
    /\ vres = NotRun
    /\ cands = <<>>
    /\ runs = <<>>
    /\ objs = NoObjs
    /\ boot = NoBoot

\* registry.add(name, cls)
obj_add(name, cls) ==
    /\ Len(hist) < MaxOps
    /\ LET r == ObjRegistry_add(objs, name, cls)
       IN  objs' = [objs EXCEPT !.reg = r.reg, !.heap = r.heap]
    /\ hist' = Append(hist, [op |-> "add", name |-> name, cls |-> cls])
    /\ UNCHANGED <<registry, last, vvars, dvars, boot>>

\* a reader keeps the result of registry[name]
obj_getitem(name) ==
    /\ Len(hist) < MaxOps
    /\ LET r == ObjRegistry_getitem(objs, name)
       IN  objs' = [reg |-> r.reg, heap |-> r.heap,
                    held |-> objs.held \cup {[name |-> name, ref |-> r.ret]}]
    /\ hist' = Append(hist, [op |-> "getitem", name |-> name, cls |-> ""])
    /\ UNCHANGED <<registry, last, vvars, dvars, boot>>

ObjectsNext ==
    \/ \E name \in Keys, cls \in Types : obj_add(name, cls)
    \/ \E name \in Keys : obj_getitem(name)

SpecObjects == ObjectsInit /\ [][ObjectsNext]_vars

(***************************************************************************)
(* Bootstrap: load_extensions, then validate_extension_data on each        *)
(* ExtensionData, then setup(registry) on each accepted extension          *)
(***************************************************************************)
\* the entry points of a bootstrap
BootNames == {"alpha", "beta"}

\* an extension that loads, passes every check and registers a backend
Good(name) ==
    [resolve |-> "Extension", init |-> "ok", dist_name |-> "str",
     ext_name |-> name, version |-> "str", get_config_schema |-> "base",
     get_default_config |-> "[demo] enabled = true", get_command |-> "base",
     require |-> "ok", validate_environment |-> "ok", setup |-> "backend"]

\* what the extension behind entry point name may do: Good(name) changed in
\* one place, so that each step of loading, each check of validation and
\* setup is reached with each of its outcomes
BootBehavioursOf(name) ==
    {[Good(name) EXCEPT !.resolve = r] :
         r \in {"raises", "nonclass", "notExtension", "Extension"}}
    \cup {[Good(name) EXCEPT !.init = "raises"],
          [Good(name) EXCEPT !.dist_name = Missing],
          [Good(name) EXCEPT !.ext_name = Missing],
          [Good(name) EXCEPT !.version = Missing],
          [Good(name) EXCEPT !.ext_name = PyNone],
          [Good(name) EXCEPT !.ext_name = "other"],
          [Good(name) EXCEPT !.get_command = "raises"]}
    \cup {[Good(name) EXCEPT !.get_config_schema = x] :
              x \in {"raises", "None", "empty", "enabled:String",
                     "enabled:Boolean,hostname:object"}}
    \cup {[Good(name) EXCEPT !.get_default_config = x] :
              x \in {"base", "raises", "", PyNone}}
    \cup {[Good(name) EXCEPT !.require = x] : x \in RequireOutcomes}
    \cup {[Good(name) EXCEPT !.validate_environment = x] :
              x \in EnvironmentOutcomes}
    \cup {[Good(name) EXCEPT !.setup = x] : x \in {"base", "frontend"}}

BootCandidateSets ==
    UNION {{c \in [S -> UNION {BootBehavioursOf(n) : n \in S}] :
                \A n \in S : c[n] \in BootBehavioursOf(n)} :
           S \in SUBSET BootNames}

\* the ConfigSchema a get_config_schema() value stands for
SchemaOf(x) ==
    CASE x \in {"enabled:Boolean", "ok"} ->
             [type |-> "ConfigSchema", items |-> << <<"enabled", "Boolean">> >>]
      [] x = "enabled:String" ->
             [type |-> "ConfigSchema", items |-> << <<"enabled", "String">> >>]
      [] x = "enabled:Boolean,hostname:object" ->
             [type |-> "ConfigSchema",
              items |-> << <<"enabled", "Boolean">>, <<"hostname", "object">> >>]
      [] x = "empty" -> [type |-> "ConfigSchema", items |-> <<>>]
      [] OTHER -> [type |-> "None", items |-> <<>>]

\* the ExtensionData ed as validate_extension_data sees it: what its
\* entry_point.require() and extension.validate_environment() will do is
\* the behaviour of the extension
DataOf(ed, c) ==
    [entry_point |-> [name |-> ed.entry_point,
                      require |-> c[ed.entry_point].require],
     extension |-> [ext_name |-> ed.extension.ext_name,
                    validate_environment |->
                        c[ed.entry_point].validate_environment],
     config_schema |-> SchemaOf(ed.config_schema),
     config_defaults |-> ed.config_defaults]

\* a loop body that uses entry_point.load(), which calls require() before
\* resolve()
LoopBodyCalls_load(name, b) ==
    IF b.resolve # "Extension" THEN <<"require", "resolve">>
    ELSE IF b.init = "raises" \/ Missing \in {b.dist_name, b.ext_name, b.version}
    THEN <<"require", "resolve", "extension_class">>
    ELSE <<"require", "resolve", "extension_class", "get_config_schema",
           "get_default_config", "get_command">>

\* the calls the loop body makes on the entry point and on the extension
LoopBodyCalls(name, b) ==
    IF b.resolve # "Extension" THEN <<"resolve">>
    ELSE IF b.init = "raises" \/ Missing \in {b.dist_name, b.ext_name, b.version}
    THEN <<"resolve", "extension_class">>
    ELSE IF Extension_get_config_schema(b) = "raises"
    THEN <<"resolve", "extension_class", "get_config_schema">>
    ELSE IF Extension_get_default_config(b) = "raises"
    THEN <<"resolve", "extension_class", "get_config_schema",
           "get_default_config">>
    ELSE <<"resolve", "extension_class", "get_config_schema",
           "get_default_config", "get_command">>

\* calls as events of a phase on an entry point
Events(phase, name, calls) ==
    [i \in 1..Len(calls) |-> [phase |-> phase, call |-> calls[i], ep |-> name]]

\* the calls load_extensions makes, over the entry points eps
RECURSIVE DiscoverCalls(_, _)
DiscoverCalls(eps, c) ==
    IF eps = <<>> THEN <<>>
    ELSE DiscoverCalls(SubSeq(eps, 1, Len(eps) - 1), c)
             \o Events("discover", eps[Len(eps)],
                       LoopBodyCalls(eps[Len(eps)], c[eps[Len(eps)]]))

\* the calls validate_extension_data makes on the entry point and on the
\* extension, out of the checks it made
ValidateCalls(v) ==
    SelectSeq(v.calls, LAMBDA x : x \in {"require", "validate_environment"})

\* a base setup whose body is `pass`
Extension_setup_pass(b, reg) ==
    IF b.setup = "base"
    THEN [raised |-> "none", reg |-> reg]
    ELSE [raised |-> "none", reg |-> Registry_add(reg, b.setup, "T1")]

\* extension.setup(registry): the base implementation raises
\* NotImplementedError; an override registers a component as in the
\* docstring, registry.add('backend', SoundspotBackend)
Extension_setup(b, reg) ==
    IF b.setup = "base"
    THEN [raised |-> "NotImplementedError", reg |-> reg]
    ELSE [raised |-> "none", reg |-> Registry_add(reg, b.setup, "T1")]

\* the index of the next accepted ExtensionData after position n, 0 if none
NextAccepted(verdicts, n) ==
    IF \E i \in (n + 1)..Len(verdicts) : verdicts[i].result = "True"
    THEN CHOOSE i \in (n + 1)..Len(verdicts) :
             /\ verdicts[i].result = "True"
             /\ \A j \in (n + 1)..(i - 1) : verdicts[j].result # "True"
    ELSE 0

\* discover all, then validate each, then set up each accepted one
PhaseFor(installed, verdicts, composed) ==
    IF Len(verdicts) < Len(installed) THEN "validate"
    ELSE IF NextAccepted(verdicts, composed) # 0 THEN "compose"
    ELSE "done"

BootInit ==
    /\ registry = Registry_init
    /\ hist = <<>>
    /\ last = NoOp
    /\ data = NoData
    /\ vres = NotRun
    /\ cands \in BootCandidateSets
    /\ runs = <<>>
    /\ objs = NoObjs
    /\ boot = [NoBoot EXCEPT !.phase = "start"]

\* installed = load_extensions()
BootDiscover ==
    /\ boot.phase = "start"
    /\ \E eps \in Enumerations(cands) :
           LET r == load_extensions(eps, cands)
           IN  boot' = [boot EXCEPT
                   !.order = eps,
                   !.installed = r.result,
                   !.trace = DiscoverCalls(eps, cands),
                   !.error = IF r.outcome = "raised" THEN "TypeError"
                             ELSE "none",
                   !.phase = IF r.outcome = "raised" THEN "crashed"
                             ELSE PhaseFor(r.result, <<>>, 0)]
    /\ UNCHANGED <<rvars, vvars, dvars, objs>>

\* validate_extension_data(installed[i]) for the next i
BootValidate ==
    /\ boot.phase = "validate"
    /\ LET ed == boot.installed[Len(boot.verdicts) + 1]
           v == validate_extension_data(DataOf(ed, cands))
           tr == boot.trace \o Events("validate", ed.entry_point,
                                      ValidateCalls(v))
       IN  boot' = IF v.result = "raised"
                   THEN [boot EXCEPT !.trace = tr, !.phase = "crashed",
                                     !.error = "UnknownExtra"]
                   ELSE [boot EXCEPT
                            !.trace = tr,
                            !.verdicts = Append(boot.verdicts, v),
                            !.phase = PhaseFor(boot.installed,
                                               Append(boot.verdicts, v), 0)]
    /\ UNCHANGED <<rvars, vvars, dvars, objs>>

\* installed[i].extension.setup(registry) for the next accepted i
BootSetup ==
    /\ boot.phase = "compose"
    /\ LET i == NextAccepted(boot.verdicts, boot.composed)
           ed == boot.installed[i]
           r == Extension_setup(cands[ed.entry_point], registry)
           tr == boot.trace \o Events("compose", ed.entry_point, <<"setup">>)
       IN  /\ registry' = r.reg
           /\ boot' = IF r.raised # "none"
                      THEN [boot EXCEPT !.trace = tr, !.composed = i,
                                        !.phase = "fatal", !.error = r.raised]
                      ELSE [boot EXCEPT
                               !.trace = tr,
                               !.composed = i,
                               !.phase = PhaseFor(boot.installed,
                                                  boot.verdicts, i)]
    /\ UNCHANGED <<hist, last, vvars, dvars, objs>>

BootNext ==
    \/ BootDiscover
    \/ BootValidate
    \/ BootSetup

SpecBoot == BootInit /\ [][BootNext]_vars

(***************************************************************************)
(* Registry claims                                                         *)
(***************************************************************************)
\* C1: for every key, the sequence stored under the key, and the sequence a
\* read of the key returns, is exactly the classes passed to add under that
\* key, in call order and with repetitions kept.
C1_ReadReturnsAddsInOrder ==
    /\ \A k \in Keys : DictGet(registry, k) = AddedUnder(hist, k)
    /\ last.op = "getitem" =>
          /\ ~last.raised
          /\ last.ret = AddedUnder(hist, last.name)

\* a read that returns a class added twice, between two adds of another class
C1_Witness ==
    /\ last.op = "getitem"
    /\ last.ret = <<"T1", "T2", "T1">>

\* C2 as stated: a read of a never-added key returns the empty sequence,
\* does not raise, and leaves size, iteration and every sequence as before.
C2_ReadMakesNoDifference ==
    (last.op = "getitem" /\ AddedUnder(hist, last.name) = <<>>) =>
        /\ ~last.raised
        /\ last.ret = <<>>
        /\ Registry_len(registry) = Registry_len(last.before)
        /\ Registry_iter(registry) = Registry_iter(last.before)
        /\ \A k \in Keys : DictGet(registry, k) = DictGet(last.before, k)

\* C2 amended: a read of a never-added key returns the empty sequence, does
\* not raise and leaves every key's sequence as it was; the first read of an
\* absent key appends the key to the iteration and raises the size by one,
\* a read of a key already present leaves the registry unchanged.
C2_ReadOfNeverAddedKey ==
    (last.op = "getitem" /\ AddedUnder(hist, last.name) = <<>>) =>
        /\ ~last.raised
        /\ last.ret = <<>>
        /\ \A k \in Keys : DictGet(registry, k) = DictGet(last.before, k)
        /\ IF last.name \in DictKeys(last.before)
           THEN registry = last.before
           ELSE /\ Registry_iter(registry) =
                       Append(Registry_iter(last.before), last.name)
                /\ Registry_len(registry) = Registry_len(last.before) + 1

\* a second read of a key that was read before and never added, next to a
\* key that holds a class
C2_Witness ==
    /\ last.op = "getitem"
    /\ AddedUnder(hist, last.name) = <<>>
    /\ last.name \in DictKeys(last.before)
    /\ \E k \in Keys : AddedUnder(hist, k) # <<>>

\* C3: the keys shown by iteration are exactly the names ever passed to add
\* or to a read, and the size is the number of those names.
C3_KeysAreTouchedNames ==
    /\ SeqElems(Registry_iter(registry)) = Touched(hist)
    /\ Registry_len(registry) = Cardinality(Touched(hist))
    /\ last.op = "iter" => SeqElems(last.ret) = Touched(hist)
    /\ last.op = "len" => last.ret = <<Cardinality(Touched(hist))>>

\* the size is taken when one key was only read and another was added to
C3_Witness ==
    /\ last.op = "len"
    /\ last.ret = <<2>>
    /\ \E k \in Keys : AddedUnder(hist, k) = <<>>
    /\ \E k \in Keys : AddedUnder(hist, k) # <<>>

\* p is a prefix of q
IsPrefix(p, q) == Len(p) <= Len(q) /\ p = SubSeq(q, 1, Len(p))

\* C15: in every step a key that is present stays present and every key's
\* sequence keeps its old contents as a prefix; a step add(k, T) appends
\* exactly T to the sequence of k and leaves every other key's sequence as
\* it was.
C15_RegistryOnlyGrows ==
    [][/\ DictKeys(registry) \subseteq DictKeys(registry')
       /\ \A k \in Keys : IsPrefix(DictGet(registry, k), DictGet(registry', k))
       /\ hist' = Append(hist, [op |-> "add", name |-> last'.name,
                                cls |-> last'.cls])
              => /\ DictGet(registry', last'.name) =
                        Append(DictGet(registry, last'.name), last'.cls)
                 /\ \A k \in Keys \ {last'.name} :
                        DictGet(registry', k) = DictGet(registry, k)]_vars

\* an add to a key that already holds a class, while the other key holds
\* classes too
C15_Witness ==
    /\ last.op = "add"
    /\ DictGet(last.before, last.name) # <<>>
    /\ \E k \in Keys \ {last.name} : Len(DictGet(registry, k)) >= 2

\* C16: every sequence a read of key k has handed out is the list object
\* stored under k, so it shows every class added under k, before or after
\* the read.
C16_ReadsShareTheStoredList ==
    \A e \in objs.held :
        /\ e.ref = objs.reg.ref[e.name]
        /\ objs.heap[e.ref] = AddedUnder(hist, e.name)

\* a read that created its key, followed by two adds under that key
C16_Witness ==
    /\ Len(hist) >= 3
    /\ hist[1].op = "getitem"
    /\ [name |-> hist[1].name, ref |-> 1] \in objs.held
    /\ Len(objs.heap[1]) = 2

(***************************************************************************)
(* validate_extension_data claims                                          *)
(***************************************************************************)
\* the five checks of the validator, in the order the specification gives
CheckOrder ==
    <<"identity", "require", "validate_environment", "schema", "defaults">>

\* the extension name differs from the entry point name
IdentityFails(d) == d.extension.ext_name # d.entry_point.name

\* entry_point.require() raises
DependencyFails(d) == d.entry_point.require # "ok"

\* validate_environment() raises
EnvironmentFails(d) == d.extension.validate_environment # "ok"

\* the schema has no "enabled" entry of the boolean config-value type
LacksBooleanEnabled(d) ==
    ~ /\ d.config_schema.type = "ConfigSchema"
      /\ \E i \in 1..Len(d.config_schema.items) :
             d.config_schema.items[i] = <<"enabled", "Boolean">>

\* the schema is empty, is no schema, lacks a boolean "enabled" or holds an
\* entry that is no config-value type
SchemaFails(d) ==
    \/ LacksBooleanEnabled(d)
    \/ \E i \in 1..Len(d.config_schema.items) :
           d.config_schema.items[i][2] \notin {"Boolean", "String"}

\* the defaults are empty or absent
DefaultsFails(d) == d.config_defaults \in {"", PyNone}

CheckFails(d, i) ==
    CASE i = 1 -> IdentityFails(d)
      [] i = 2 -> DependencyFails(d)
      [] i = 3 -> EnvironmentFails(d)
      [] i = 4 -> SchemaFails(d)
      [] i = 5 -> DefaultsFails(d)

\* C4: when the extension name differs from the entry point name, validate
\* returns false and makes neither the dependency check, nor the environment
\* check, nor a schema or defaults check.
C4_NameMismatchRejectsWithoutChecks ==
    (vres # NotRun /\ IdentityFails(data)) =>
        /\ vres.result = "False"
        /\ \A c \in {"require", "validate_environment", "schema", "defaults"} :
               c \notin SeqElems(vres.calls)

\* a validated name mismatch on a descriptor whose other checks would all
\* have failed
C4_Witness ==
    /\ vres # NotRun
    /\ IdentityFails(data)
    /\ data.extension.ext_name \in Names
    /\ data.entry_point.require = "DistributionNotFound"
    /\ data.extension.validate_environment = "ExtensionError"
    /\ data.config_schema.items = <<>>
    /\ data.config_defaults = ""

\* C5: the checks run in the order identity, dependency, environment, schema,
\* defaults; when check i is the first that fails, validate returns false
\* and the checks made are exactly the first i.
C5_FixedOrderFirstFailureRejects ==
    vres # NotRun =>
        /\ \E n \in 1..5 : vres.calls = SubSeq(CheckOrder, 1, n)
        /\ \A i \in 1..5 :
               (CheckFails(data, i) /\ \A j \in 1..(i - 1) : ~CheckFails(data, j))
                   => /\ vres.result = "False"
                      /\ vres.calls = SubSeq(CheckOrder, 1, i)

\* C6: a descriptor whose schema has no boolean "enabled" entry is rejected
\* with the return value false, whatever the other checks give.
C6_NoBooleanEnabledReturnsFalse ==
    (vres # NotRun /\ LacksBooleanEnabled(data)) => vres.result = "False"

\* C9: validate never raises; every failure of the dependency check, of
\* validate_environment, of the schema or of the defaults gives the return
\* value false.
C9_ValidateNeverRaises ==
    vres # NotRun =>
        /\ vres.result \in {"True", "False"}
        /\ (DependencyFails(data) \/ EnvironmentFails(data)
                \/ SchemaFails(data) \/ DefaultsFails(data))
               => vres.result = "False"

\* C12: validate returns true exactly when the names are equal, the
\* dependency check succeeds, validate_environment returns, the schema is
\* non-empty with a boolean "enabled" and only config-value entries, and the
\* defaults are non-empty; an ExtensionError from validate_environment is
\* rejected with an informational log.
C12_AcceptedIffAllFiveHold ==
    vres # NotRun =>
        /\ vres.result = "True" <=>
               /\ ~IdentityFails(data)
               /\ ~DependencyFails(data)
               /\ ~EnvironmentFails(data)
               /\ ~SchemaFails(data)
               /\ ~DefaultsFails(data)
        /\ (/\ ~IdentityFails(data)
            /\ ~DependencyFails(data)
            /\ data.extension.validate_environment = "ExtensionError")
               => vres.result = "False" /\ vres.log = "info"

\* the extension "demo" with schema {enabled: Boolean}, non-empty defaults,
\* satisfied dependencies and a passing environment check is accepted
C12_Witness ==
    /\ vres.result = "True"
    /\ data.entry_point.name = "demo"
    /\ data.extension.ext_name = "demo"
    /\ data.config_schema.items = << <<"enabled", "Boolean">> >>
    /\ data.config_defaults = "[demo] enabled = true"

(***************************************************************************)
(* load_extensions claims                                                  *)
(***************************************************************************)
\* resolution, the Extension subtype check, instantiation, the reads of
\* dist_name, ext_name and version and the three get_ calls all succeed
AllStepsSucceed(b) ==
    /\ b.resolve = "Extension"
    /\ b.init = "ok"
    /\ b.dist_name # Missing /\ b.ext_name # Missing /\ b.version # Missing
    /\ b.get_config_schema = "ok"
    /\ b.get_default_config = "ok"
    /\ b.get_command = "ok"

\* number of descriptors of entry point name in a returned list
DescriptorsOf(result, name) ==
    Cardinality({i \in 1..Len(result) : result[i].entry_point = name})

\* position of an entry point in an enumeration
PositionIn(order, name) == CHOOSE i \in 1..Len(order) : order[i] = name

\* C7: every call of discover returns exactly one descriptor for each
\* candidate all of whose steps succeed and none for any other candidate.
C7_OneDescriptorPerLoadedCandidate ==
    \A k \in 1..Len(runs) :
        \A name \in DOMAIN cands :
            DescriptorsOf(runs[k].result, name) =
                IF AllStepsSucceed(cands[name]) THEN 1 ELSE 0

\* C8: discover never raises: every call runs to its end and returns a list.
C8_DiscoverNeverRaises ==
    \A k \in 1..Len(runs) : runs[k].outcome = "returned"

\* C10 as stated: two enumerations of the same candidate set, in whatever
\* orders, give the same descriptor sequence.
C10_SameSequenceForEveryEnumeration ==
    \A k, m \in 1..Len(runs) : runs[k].result = runs[m].result

\* C10 amended: two enumerations of the same candidate set end the same way
\* (both return or both raise) and give the same set of descriptors, and
\* each returned sequence is in the order of its own enumeration.
C10_SequenceFollowsEnumeration ==
    /\ \A k, m \in 1..Len(runs) :
           /\ runs[k].outcome = runs[m].outcome
           /\ SeqElems(runs[k].result) = SeqElems(runs[m].result)
    /\ \A k \in 1..Len(runs) :
           \A i, j \in 1..Len(runs[k].result) :
               i < j => PositionIn(runs[k].order, runs[k].result[i].entry_point)
                          < PositionIn(runs[k].order, runs[k].result[j].entry_point)

\* two calls that enumerate three candidates in different orders, one of
\* them skipped, and return different sequences of the other two
C10_Witness ==
    /\ Len(runs) = 2
    /\ Len(runs[1].order) = 3
    /\ runs[1].outcome = "returned" /\ runs[2].outcome = "returned"
    /\ Len(runs[1].result) = 2
    /\ runs[1].result # runs[2].result

\* the entry point names of a returned list, in list order
EntryPointsOf(result) == [i \in 1..Len(result) |-> result[i].entry_point]

\* C18: the returned descriptors are the enumeration with the skipped
\* candidates left out: their entry points, in list order, are the
\* enumeration restricted to the candidates that have a descriptor, and no
\* candidate has more than one descriptor.
C18_ResultIsSubsequenceOfEnumeration ==
    \A k \in 1..Len(runs) :
        /\ EntryPointsOf(runs[k].result) =
               SelectSeq(runs[k].order,
                         LAMBDA n : n \in SeqElems(EntryPointsOf(runs[k].result)))
        /\ \A name \in DOMAIN cands : DescriptorsOf(runs[k].result, name) <= 1

\* a call that skips the second of three enumerated candidates and returns
\* the first and the third
C18_Witness ==
    \E k \in 1..Len(runs) :
        /\ Len(runs[k].order) = 3
        /\ ~AllStepsSucceed(cands[runs[k].order[2]])
        /\ EntryPointsOf(runs[k].result) = <<runs[k].order[1], runs[k].order[3]>>

(***************************************************************************)
(* Bootstrap claims                                                        *)
(***************************************************************************)
\* the position of a phase in the bootstrap
PhaseRank(phase) ==
    CASE phase = "discover" -> 1 [] phase = "validate" -> 2 [] OTHER -> 3

\* the calls made so far on entry point name in a phase
CallsOn(name, phase) ==
    {boot.trace[i].call : i \in {j \in 1..Len(boot.trace) :
                                     /\ boot.trace[j].ep = name
                                     /\ boot.trace[j].phase = phase}}

\* every step of loading succeeds
BootLoads(b) ==
    /\ b.resolve = "Extension"
    /\ b.init = "ok"
    /\ Missing \notin {b.dist_name, b.ext_name, b.version}
    /\ b.get_config_schema # "raises"
    /\ b.get_default_config \notin {"base", "raises"}
    /\ b.get_command # "raises"

\* C13: discovery makes no dependency check, environment check or setup
\* call and has gone through every candidate when it is over; validation is
\* only made on descriptors that discovery returned and makes no setup call;
\* no call of an earlier phase follows a call of a later one; the Registry
\* is empty until the first setup call, and no step of validation changes
\* the descriptors or the Registry.
C13_PhasesDoNotOverlap ==
    /\ [](/\ \A i \in 1..Len(boot.trace) :
               LET e == boot.trace[i]
               IN  /\ e.phase = "discover" =>
                         e.call \notin {"require", "validate_environment",
                                        "setup"}
                   /\ e.phase = "validate" =>
                         /\ e.call # "setup"
                         /\ DescriptorsOf(boot.installed, e.ep) = 1
                   /\ e.call = "setup" => e.phase = "compose"
                   /\ \A j \in 1..(i - 1) :
                          PhaseRank(boot.trace[j].phase) <= PhaseRank(e.phase)
          /\ boot.phase \notin {"none", "start"} =>
                 \A n \in DOMAIN cands : "resolve" \in CallsOn(n, "discover")
          /\ (\A i \in 1..Len(boot.trace) : boot.trace[i].call # "setup")
                 => registry = Registry_init)
    /\ [][boot.phase \in {"start", "validate"} =>
              /\ registry' = registry
              /\ boot.phase = "validate" => boot'.installed = boot.installed]_vars

\* a finished bootstrap in which one candidate was skipped by discovery and
\* the other was validated with both checks and then set up
C13_Witness ==
    /\ boot.phase = "done"
    /\ Len(boot.order) = 2
    /\ Len(boot.installed) = 1
    /\ \E n \in DOMAIN cands :
           /\ CallsOn(n, "validate") = {"require", "validate_environment"}
           /\ CallsOn(n, "compose") = {"setup"}
    /\ registry # Registry_init

\* C14: an extension that does not override setup gets its descriptor when
\* its loading steps succeed and is accepted when its five checks pass; once
\* its setup has been called the bootstrap has stopped on
\* NotImplementedError, which no rejected extension produces, and the call
\* left the Registry as it was.
C14_BaseSetupFailsAndLeavesRegistry ==
    /\ [](\A n \in DOMAIN cands :
              cands[n].setup = "base" =>
                  /\ (BootLoads(cands[n])
                          /\ boot.phase \notin {"none", "start", "crashed"})
                         => DescriptorsOf(boot.installed, n) = 1
                  /\ \A i \in 1..Len(boot.verdicts) :
                         (/\ boot.installed[i].entry_point = n
                          /\ \A k \in 1..5 :
                                 ~CheckFails(DataOf(boot.installed[i], cands), k))
                             => boot.verdicts[i].result = "True"
                  /\ "setup" \in CallsOn(n, "compose") =>
                         /\ boot.phase = "fatal"
                         /\ boot.error = "NotImplementedError"
                         /\ boot.installed[boot.composed].entry_point = n
                         /\ boot.verdicts[boot.composed].result = "True")
    /\ [][(/\ boot.phase = "compose"
           /\ cands[boot.installed[NextAccepted(boot.verdicts, boot.composed)]
                        .entry_point].setup = "base")
              => registry' = registry /\ boot'.phase = "fatal"]_vars

\* setup of an extension without an override was called after another
\* extension had registered its component
C14_Witness ==
    /\ boot.phase = "fatal"
    /\ registry # Registry_init
    /\ cands[boot.installed[boot.composed].entry_point].setup = "base"

\* C17: an extension that does not override get_default_config has no
\* descriptor and is never validated: discovery called its
\* get_default_config and skipped it; and no rejection that the defaults
\* check made is a rejection of such an extension.
C17_BaseDefaultConfigNeverYieldsDescriptor ==
    /\ \A n \in DOMAIN cands :
           (cands[n].get_default_config = "base"
                /\ boot.phase \notin {"none", "start"}) =>
               /\ DescriptorsOf(boot.installed, n) = 0
               /\ CallsOn(n, "validate") = {}
               /\ "get_command" \notin CallsOn(n, "discover")
    /\ \A i \in 1..Len(boot.verdicts) :
           (/\ boot.verdicts[i].result = "False"
            /\ boot.verdicts[i].calls[Len(boot.verdicts[i].calls)] = "defaults")
               => cands[boot.installed[i].entry_point].get_default_config
                      # "base"

\* discovery skipped an extension without get_default_config after calling
\* it, and the defaults check rejected the other extension
C17_Witness ==
    /\ \E n \in DOMAIN cands :
           /\ cands[n].get_default_config = "base"
           /\ "get_default_config" \in CallsOn(n, "discover")
    /\ \E i \in 1..Len(boot.verdicts) :
           /\ boot.verdicts[i].result = "False"
           /\ boot.verdicts[i].calls[Len(boot.verdicts[i].calls)] = "defaults"

====
